---- MODULE Spec2Model ----
(***************************************************************************)
(* Model of backend/server.js: an Express process that maps five HTTP      *)
(* routes to single SQL statements on one "users" table through a shared   *)
(* mysql2 connection handle `db`, plus the connect/retry cycle             *)
(* (connectWithRetry) that (re)creates that handle.                        *)
(*                                                                         *)
(* The storage engine and the driver are the environment.  They are        *)
(* modelled by the contract the code relies on:                            *)
(*  - a connection object runs the statements given to it in FIFO order,   *)
(*    after its handshake; a statement given to a closed connection, or    *)
(*    left on a connection that closes, calls back with an error;          *)
(*  - a failed handshake is reported to the connect callback and, as an    *)
(*    'error' event, to the listener registered at line 52;                *)
(*  - CREATE TABLE IF NOT EXISTS, INSERT, SELECT, UPDATE and DELETE on a   *)
(*    table with an AUTO_INCREMENT primary key behave as in MySQL.         *)
(***************************************************************************)
EXTENDS Integers, Sequences, FiniteSets, TLC

\* ------------------------------------------------------------- bounds
MaxId == 2          \* identifiers the engine may hand out in one run
MaxConns == 3       \* connection objects created in one run
MaxInflight == 1    \* request statements waiting in the driver at once
MaxConcurrent == 2  \* the same, in the runs with concurrent requests
MaxLosses == 1      \* connections lost in a run with concurrent requests

\* ------------------------------------------------- program constants
RETRY_DELAY == 5000 \* setTimeout(connectWithRetry, 5000)

\* ----------------------------------------------------- request inputs
Missing == "undefined"                 \* a body field that is absent

\* JavaScript `!v` for a body field (lines 112 and 145)
Falsy(v) == v \in {Missing, ""}

\* The request bodies tried, as <<name, email>>: two bodies with non-empty
\* fields that differ in both, and bodies with a field absent or empty.
ValidBodies == {<<"a", "x">>, <<"b", "y">>}
Bodies ==
  ValidBodies \cup
  {<<Missing, "x">>, <<"a", Missing>>, <<Missing, Missing>>, <<"", "y">>, <<"b", "">>}

\* Path segments for :id.  req.params.id is a string; the engine compares
\* it with the INT column by converting it to a number.
Digits == <<"1", "2", "3", "4", "5", "6", "7", "8">>
PathIds == {Digits[i] : i \in 1..MaxId} \cup {"x"}

SqlNumber(s) ==
  IF s = "x" THEN 0
  ELSE CHOOSE i \in 1..Len(Digits) : Digits[i] = s

\* ------------------------------------------------------ storage engine
\* The engine's state is [exists, rows, nextId]; rows is the table in
\* primary-key order.  Each statement returns
\* [err, exists, rows, nextId, affectedRows, insertId, results].

NoSuchTable == "ER_NO_SUCH_TABLE"
NoErr == "null"

Outcome(err, ex, rs, nid, aff, ins, res) ==
  [err |-> err, exists |-> ex, rows |-> rs, nextId |-> nid,
   affectedRows |-> aff, insertId |-> ins, results |-> res]

Fail(e, err) == Outcome(err, e.exists, e.rows, e.nextId, 0, 0, <<>>)

\* Faulty variant of SqlCreateTable: IF NOT EXISTS is ignored and the table
\* is made anew.
SqlRecreateTable(e) ==
  Outcome(NoErr, TRUE, <<>>, 1, 0, 0, <<>>)

\* CREATE TABLE IF NOT EXISTS users (id INT AUTO_INCREMENT PRIMARY KEY, ...)
SqlCreateTable(e) ==
  Outcome(NoErr, TRUE, e.rows, e.nextId, 0, 0, <<>>)

\* Faulty variant of SqlInsert: the new id is one more than the largest id
\* present, so the id of a deleted last record is handed out again.
SqlInsertReuse(e, name, email) ==
  IF ~e.exists THEN Fail(e, NoSuchTable)
  ELSE LET nid == IF e.rows = <<>> THEN 1 ELSE e.rows[Len(e.rows)].id + 1
       IN Outcome(NoErr, TRUE,
                  Append(e.rows, [id |-> nid, name |-> name, email |-> email]),
                  e.nextId + 1, 1, nid, <<>>)

\* Faulty variant of SqlInsert: the AUTO_INCREMENT counter is not advanced by
\* the statement.
SqlInsertNoAdvance(e, name, email) ==
  IF ~e.exists THEN Fail(e, NoSuchTable)
  ELSE Outcome(NoErr, TRUE,
               Append(e.rows, [id |-> e.nextId, name |-> name, email |-> email]),
               IF e.rows = <<>> THEN e.nextId ELSE e.nextId + 1, 1, e.nextId, <<>>)

\* INSERT INTO users (name, email) VALUES (?, ?)
SqlInsert(e, name, email) ==
  IF ~e.exists THEN Fail(e, NoSuchTable)
  ELSE Outcome(NoErr, TRUE,
               Append(e.rows, [id |-> e.nextId, name |-> name, email |-> email]),
               e.nextId + 1, 1, e.nextId, <<>>)

\* Faulty variant of SqlSelectAll: the records come newest first.
SqlSelectAllDesc(e) ==
  IF ~e.exists THEN Fail(e, NoSuchTable)
  ELSE Outcome(NoErr, TRUE, e.rows, e.nextId, 0, 0,
               [i \in 1..Len(e.rows) |-> e.rows[Len(e.rows) + 1 - i]])

\* SELECT * FROM users
SqlSelectAll(e) ==
  IF ~e.exists THEN Fail(e, NoSuchTable)
  ELSE Outcome(NoErr, TRUE, e.rows, e.nextId, 0, 0, e.rows)

Matches(rs, id) == {i \in 1..Len(rs) : rs[i].id = SqlNumber(id)}

\* Faulty variant of SqlUpdate: the WHERE clause is dropped from the rows
\* that are rewritten.
SqlUpdateAll(e, name, email, id) ==
  IF ~e.exists THEN Fail(e, NoSuchTable)
  ELSE Outcome(NoErr, TRUE,
               [i \in 1..Len(e.rows) |->
                  [id |-> e.rows[i].id, name |-> name, email |-> email]],
               e.nextId, Cardinality({i \in 1..Len(e.rows) : e.rows[i].id = SqlNumber(id)}),
               0, <<>>)

\* Faulty variant of SqlUpdate: affectedRows counts the rows whose values
\* changed, as a connection without the FOUND_ROWS flag reports it.
SqlUpdateChanged(e, name, email, id) ==
  IF ~e.exists THEN Fail(e, NoSuchTable)
  ELSE Outcome(NoErr, TRUE,
               [i \in 1..Len(e.rows) |->
                  IF i \in Matches(e.rows, id)
                  THEN [id |-> e.rows[i].id, name |-> name, email |-> email]
                  ELSE e.rows[i]],
               e.nextId,
               Cardinality({i \in Matches(e.rows, id) :
                              e.rows[i].name # name \/ e.rows[i].email # email}),
               0, <<>>)

\* UPDATE users SET name = ?, email = ? WHERE id = ?
\* affectedRows is the number of rows the WHERE clause matched.
SqlUpdate(e, name, email, id) ==
  IF ~e.exists THEN Fail(e, NoSuchTable)
  ELSE Outcome(NoErr, TRUE,
               [i \in 1..Len(e.rows) |->
                  IF i \in Matches(e.rows, id)
                  THEN [id |-> e.rows[i].id, name |-> name, email |-> email]
                  ELSE e.rows[i]],
               e.nextId, Cardinality(Matches(e.rows, id)), 0, <<>>)

\* Faulty variant of SqlDelete: the WHERE clause is missing.
SqlDeleteAll(e, id) ==
  IF ~e.exists THEN Fail(e, NoSuchTable)
  ELSE Outcome(NoErr, TRUE, <<>>, e.nextId, Len(e.rows), 0, <<>>)

\* Faulty variant of SqlDelete: the AUTO_INCREMENT counter is recomputed from
\* the records that remain.
SqlDeleteRecount(e, id) ==
  IF ~e.exists THEN Fail(e, NoSuchTable)
  ELSE LET rs == SelectSeq(e.rows, LAMBDA r : r.id # SqlNumber(id))
       IN Outcome(NoErr, TRUE, rs,
                  IF rs = <<>> THEN 1 ELSE rs[Len(rs)].id + 1,
                  Cardinality(Matches(e.rows, id)), 0, <<>>)

\* DELETE FROM users WHERE id = ?
SqlDelete(e, id) ==
  IF ~e.exists THEN Fail(e, NoSuchTable)
  ELSE Outcome(NoErr, TRUE,
               SelectSeq(e.rows, LAMBDA r : r.id # SqlNumber(id)),
               e.nextId, Cardinality(Matches(e.rows, id)), 0, <<>>)


\* ------------------------------------------------------------- state
VARIABLES
  pc,           \* "boot" before lines 177-182 have run, then "running"
  db,           \* line 31: the shared handle; 0 is undefined, else a connection
  conns,        \* every connection object created so far: [state, queue]
  timers,       \* pending setTimeout(connectWithRetry, d): the delays d
  dbUp,         \* whether the storage engine accepts connections
  tableExists,  \* engine: the users table exists
  rows,         \* engine: the users table, in primary-key order
  nextId,       \* engine: the AUTO_INCREMENT counter
  assigned,     \* history: every id the engine has handed out
  last          \* the HTTP response sent by this step, or NoResp

vars == <<pc, db, conns, timers, dbUp, tableExists, rows, nextId, assigned, last>>
engineVars == <<tableExists, rows, nextId, assigned>>
connVars == <<db, conns, timers>>

Engine == [exists |-> tableExists, rows |-> rows, nextId |-> nextId]

\* A statement handed to db.query by route op.  `at` records the state the
\* connection was in when the handler called db.query.
Stmt(op, id, name, email, at) ==
  [op |-> op, id |-> id, name |-> name, email |-> email, at |-> at]

\* An HTTP response of route op to a request for path segment id: its
\* status and JSON body (userId, the array body of GET /users, and text, the
\* message, error or status string).
Resp(op, id, status, userId, body, text) ==
  [op |-> op, id |-> id, status |-> status, userId |-> userId, body |-> body,
   text |-> text]

NoResp == Resp("none", "", 0, 0, <<>>, "")

ClosedErr == "closed state"             \* the driver's error for a closed connection
ErrRefused == "ECONNREFUSED"            \* the engine does not accept connections
ErrLost == "PROTOCOL_CONNECTION_LOST"   \* the server closed the socket

\* ------------------------------------------------ connection lifecycle
\* A connection object: state is "connecting", "connected" or "closed";
\* established tells whether its handshake ever completed; err is the error
\* that closed it; queue holds the statements given to it and not yet
\* answered.
\* Lines 34-39: mysql.createConnection(...) makes a new object, which starts
\* its handshake.
NewConn ==
  [state |-> "connecting", established |-> FALSE, err |-> NoErr, queue |-> <<>>]

Establish(cs, c) == [cs EXCEPT ![c].state = "connected", ![c].established = TRUE]

\* Lines 33-39: connectWithRetry() creates the object; the caller of this
\* operator stores it in db (db' = Len(conns')).  The connect callback and
\* the error listener registered on it (lines 41-57) are connectCb and
\* onError below.
connectWithRetry(cs) == Append(cs, NewConn)

Close(cs, c, err) == [cs EXCEPT ![c].state = "closed", ![c].err = err]

\* db.query(stmt, cb) on the object db refers to: the driver queues it.
Enqueue(cs, c, st) == [cs EXCEPT ![c].queue = Append(@, st)]

Inflight(cs) ==
  LET n[i \in 0..Len(cs)] ==
        IF i = 0 THEN 0
        ELSE n[i - 1] + Cardinality({k \in 1..Len(cs[i].queue) :
                                       cs[i].queue[k].op # "auto-create"})
  IN n[Len(cs)]

\* Lines 63-78: createTableIfNotExists() issues its statement on db; its
\* callback only logs.
createTableIfNotExists(cs, d) ==
  IF cs[d].state = "closed" THEN cs
  ELSE Enqueue(cs, d, Stmt("auto-create", "", "", "", cs[d].state))

\* Faulty variant of connectCb: the error branch schedules no retry.
connectCbNoRetry(cs, d, ts, err) ==
  IF err # NoErr
  THEN [conns |-> cs, timers |-> ts]
  ELSE [conns |-> createTableIfNotExists(cs, d), timers |-> ts]

\* Lines 41-49: the connect callback.  Given the connection objects, the
\* handle, the pending timers and the handshake's error, it returns the new
\* objects and timers.
connectCb(cs, d, ts, err) ==
  IF err # NoErr
  THEN [conns |-> cs, timers |-> Append(ts, RETRY_DELAY)]
  ELSE [conns |-> createTableIfNotExists(cs, d), timers |-> ts]

\* Faulty variant of onError: the listener only logs.
onErrorLogOnly(cs, d, err) == [conns |-> cs, db |-> d]

\* Lines 52-57: the 'error' listener.  It returns the new objects and handle.
onError(cs, d, err) ==
  IF err = ErrLost
  THEN [conns |-> connectWithRetry(cs), db |-> Len(cs) + 1]
  ELSE [conns |-> cs, db |-> d]

Conns == 1..Len(conns)

\* The engine and network may fail only while new connection objects fit
\* in the bound: k is the number of objects the failure will lead to.
Room(k) == Len(conns) + Len(timers) + k <= MaxConns

Init ==
  /\ pc = "boot"
  /\ db = 0
  /\ conns = <<>>
  /\ timers = <<>>
  /\ dbUp \in BOOLEAN
  /\ tableExists = FALSE
  /\ rows = <<>>
  /\ nextId = 1
  /\ assigned = {}
  /\ last = NoResp

\* Faulty variant of Start: the first connectWithRetry() is left to a timer,
\* so the listener runs while db is still undefined.
StartDeferred ==
  /\ pc = "boot"
  /\ pc' = "running"
  /\ timers' = Append(timers, RETRY_DELAY)
  /\ last' = NoResp
  /\ UNCHANGED <<db, conns, dbUp, engineVars>>

\* Lines 177-182: app.listen(...) and the first connectWithRetry(), both in
\* the module's top-level run, before any request is dispatched.
Start ==
  /\ pc = "boot"
  /\ pc' = "running"
  /\ conns' = connectWithRetry(conns)
  /\ db' = Len(conns')
  /\ last' = NoResp
  /\ UNCHANGED <<timers, dbUp, engineVars>>

\* The handshake of object c completes: the connect callback runs with no
\* error.
ConnectOK(c) ==
  /\ pc = "running"
  /\ conns[c].state = "connecting"
  /\ dbUp
  /\ LET r == connectCb(Establish(conns, c), db, timers, NoErr)
     IN conns' = r.conns /\ timers' = r.timers
  /\ last' = NoResp
  /\ UNCHANGED <<pc, db, dbUp, engineVars>>

\* The handshake of object c fails with err: the driver reports it to the
\* connect callback and emits it as an 'error' event, so the listener of
\* line 52 runs too.
ConnectFail(c, err) ==
  /\ pc = "running"
  /\ conns[c].state = "connecting"
  /\ LET r == connectCb(Close(conns, c, err), db, timers, err)
         q == onError(r.conns, db, err)
     IN conns' = q.conns /\ db' = q.db /\ timers' = r.timers
  /\ last' = NoResp
  /\ UNCHANGED <<pc, dbUp, engineVars>>

\* The engine refuses the connection.
ConnectRefused(c) == ~dbUp /\ Room(1) /\ ConnectFail(c, ErrRefused)

\* The server closes the socket during the handshake.
HandshakeLost(c) == Room(2) /\ ConnectFail(c, ErrLost)

\* An established connection is lost: the driver emits the 'error' event.
ConnLost(c) ==
  /\ pc = "running"
  /\ conns[c].state = "connected"
  /\ Room(1)
  /\ LET q == onError(Close(conns, c, ErrLost), db, ErrLost)
     IN conns' = q.conns /\ db' = q.db
  /\ last' = NoResp
  /\ UNCHANGED <<pc, timers, dbUp, engineVars>>

\* Line 44: a retry timer fires and runs connectWithRetry().
TimerFire ==
  /\ pc = "running"
  /\ timers # <<>>
  /\ timers' = Tail(timers)
  /\ conns' = connectWithRetry(conns)
  /\ db' = Len(conns')
  /\ last' = NoResp
  /\ UNCHANGED <<pc, dbUp, engineVars>>

\* The storage engine stops or starts accepting connections.
EngineDown ==
  /\ dbUp
  /\ dbUp' = FALSE
  /\ last' = NoResp
  /\ UNCHANGED <<pc, connVars, engineVars>>

EngineUp ==
  /\ ~dbUp
  /\ dbUp' = TRUE
  /\ last' = NoResp
  /\ UNCHANGED <<pc, connVars, engineVars>>


\* ---------------------------------------------------- request handlers
\* The engine's answer to one statement.
Run(e, st) ==
  CASE st.op \in {"auto-create", "create-table"} -> SqlCreateTable(e)
    [] st.op = "add-user" -> SqlInsert(e, st.name, st.email)
    [] st.op = "users" -> SqlSelectAll(e)
    [] st.op = "update-user" -> SqlUpdate(e, st.name, st.email, st.id)
    [] st.op = "delete-user" -> SqlDelete(e, st.id)

Answer(st, status, userId, body, text) ==
  Resp(st.op, st.id, status, userId, body, text)

\* Faulty variant of createTableCb: the err test is missing.
createTableCbNoErr(st, o) ==
  Answer(st, 200, 0, <<>>, "Users table created successfully!")

\* Lines 99-102: the callback of POST /create-table.
createTableCb(st, o) ==
  IF o.err # NoErr THEN Answer(st, 500, 0, <<>>, o.err)
  ELSE Answer(st, 200, 0, <<>>, "Users table created successfully!")

\* Lines 116-122: the callback of POST /add-user.
addUserCb(st, o) ==
  IF o.err # NoErr THEN Answer(st, 500, 0, <<>>, o.err)
  ELSE Answer(st, 200, o.insertId, <<>>, "User added successfully!")

\* Lines 131-134: the callback of GET /users.
usersCb(st, o) ==
  IF o.err # NoErr THEN Answer(st, 500, 0, <<>>, o.err)
  ELSE Answer(st, 200, 0, o.results, "")

\* Faulty variant of updateUserCb: the affectedRows test is missing.
updateUserCbNo404(st, o) ==
  IF o.err # NoErr THEN Answer(st, 500, 0, <<>>, o.err)
  ELSE Answer(st, 200, 0, <<>>, "User updated successfully!")

\* Lines 149-155: the callback of PUT /update-user/:id.
updateUserCb(st, o) ==
  IF o.err # NoErr THEN Answer(st, 500, 0, <<>>, o.err)
  ELSE IF o.affectedRows = 0 THEN Answer(st, 404, 0, <<>>, "User not found")
  ELSE Answer(st, 200, 0, <<>>, "User updated successfully!")

\* Faulty variant of deleteUserCb: the affectedRows test is missing.
deleteUserCbNo404(st, o) ==
  IF o.err # NoErr THEN Answer(st, 500, 0, <<>>, o.err)
  ELSE Answer(st, 200, 0, <<>>, "User deleted successfully!")

\* Lines 165-171: the callback of DELETE /delete-user/:id.
deleteUserCb(st, o) ==
  IF o.err # NoErr THEN Answer(st, 500, 0, <<>>, o.err)
  ELSE IF o.affectedRows = 0 THEN Answer(st, 404, 0, <<>>, "User not found")
  ELSE Answer(st, 200, 0, <<>>, "User deleted successfully!")

\* The callback a statement was issued with.  createTableIfNotExists's
\* callback (lines 71-77) logs and answers nobody.
Callback(st, o) ==
  CASE st.op = "auto-create" -> NoResp
    [] st.op = "create-table" -> createTableCb(st, o)
    [] st.op = "add-user" -> addUserCb(st, o)
    [] st.op = "users" -> usersCb(st, o)
    [] st.op = "update-user" -> updateUserCb(st, o)
    [] st.op = "delete-user" -> deleteUserCb(st, o)

\* Faulty variant of Query: the handler waits for an established connection.
QueryWhenConnected(st) ==
  /\ conns[db].state = "connected"
  /\ conns' = Enqueue(conns, db, st)
  /\ last' = NoResp

\* db.query(sql, params, cb) in a handler: a closed connection calls back
\* with an error at once; otherwise the statement waits in the driver.
Query(st) ==
  \/ /\ conns[db].state = "closed"
     /\ last' = Callback(st, Fail(Engine, ClosedErr))
     /\ UNCHANGED conns
  \/ /\ conns[db].state # "closed"
     /\ conns' = Enqueue(conns, db, st)
     /\ last' = NoResp

\* Faulty variant of Health: it answers only while the handle refers to an
\* established connection.
HealthNeedsDb ==
  /\ pc = "running"
  /\ conns[db].state = "connected"
  /\ last' = Resp("health", "", 200, 0, <<>>, "Backend is running!")
  /\ UNCHANGED <<pc, connVars, dbUp, engineVars>>

\* Lines 83-85: GET /health.
Health ==
  /\ pc = "running"
  /\ last' = Resp("health", "", 200, 0, <<>>, "Backend is running!")
  /\ UNCHANGED <<pc, connVars, dbUp, engineVars>>

\* Lines 91-103: POST /create-table.
CreateTable ==
  /\ pc = "running"
  /\ Query(Stmt("create-table", "", "", "", conns[db].state))
  /\ UNCHANGED <<pc, db, timers, dbUp, engineVars>>

\* Faulty variant of Invalid: && in place of ||.
InvalidBoth(name, email) == Falsy(name) /\ Falsy(email)

\* Lines 112-114 and 145-147: the body check of add-user and update-user.
Invalid(name, email) == Falsy(name) \/ Falsy(email)

BadRequest(st) == Answer(st, 400, 0, <<>>, "Name and email are required")

\* Lines 110-123: POST /add-user.
AddUser(name, email) ==
  /\ pc = "running"
  /\ LET st == Stmt("add-user", "", name, email, conns[db].state) IN
       IF Invalid(name, email)
       THEN last' = BadRequest(st) /\ UNCHANGED conns
       ELSE Query(st)
  /\ UNCHANGED <<pc, db, timers, dbUp, engineVars>>

\* Lines 129-135: GET /users.
Users ==
  /\ pc = "running"
  /\ Query(Stmt("users", "", "", "", conns[db].state))
  /\ UNCHANGED <<pc, db, timers, dbUp, engineVars>>

\* Faulty variant of UpdateUser: the body check is missing.
UpdateUserNoCheck(id, name, email) ==
  /\ pc = "running"
  /\ Query(Stmt("update-user", id, name, email, conns[db].state))
  /\ UNCHANGED <<pc, db, timers, dbUp, engineVars>>

\* Lines 142-156: PUT /update-user/:id.
UpdateUser(id, name, email) ==
  /\ pc = "running"
  /\ LET st == Stmt("update-user", id, name, email, conns[db].state) IN
       IF Invalid(name, email)
       THEN last' = BadRequest(st) /\ UNCHANGED conns
       ELSE Query(st)
  /\ UNCHANGED <<pc, db, timers, dbUp, engineVars>>

\* Lines 162-172: DELETE /delete-user/:id.
DeleteUser(id) ==
  /\ pc = "running"
  /\ Query(Stmt("delete-user", id, "", "", conns[db].state))
  /\ UNCHANGED <<pc, db, timers, dbUp, engineVars>>

\* The engine runs the oldest statement of an established connection and
\* the driver calls the statement's callback with the result.
ExecHead(c) ==
  /\ conns[c].state = "connected"
  /\ dbUp
  /\ conns[c].queue # <<>>
  /\ LET st == Head(conns[c].queue)
         o == Run(Engine, st)
     IN /\ tableExists' = o.exists
        /\ rows' = o.rows
        /\ nextId' = o.nextId
        /\ assigned' = IF o.insertId # 0 THEN assigned \cup {o.insertId} ELSE assigned
        /\ last' = Callback(st, o)
  /\ conns' = [conns EXCEPT ![c].queue = Tail(@)]
  /\ UNCHANGED <<pc, db, timers, dbUp>>

\* Faulty variant of FailHead: the callback of a failed statement gives the
\* statement to db.query again instead of answering.
FailHeadReissue(c) ==
  /\ conns[c].state = "closed"
  /\ conns[c].queue # <<>>
  /\ LET st == Head(conns[c].queue)
         cs == [conns EXCEPT ![c].queue = Tail(@)]
     IN IF st.op = "auto-create" \/ cs[db].state = "closed"
        THEN conns' = cs /\ last' = Callback(st, Fail(Engine, ClosedErr))
        ELSE conns' = Enqueue(cs, db, st) /\ last' = NoResp
  /\ UNCHANGED <<pc, db, timers, dbUp, engineVars>>

\* The driver fails the oldest statement left on a closed connection.
FailHead(c) ==
  /\ conns[c].state = "closed"
  /\ conns[c].queue # <<>>
  /\ last' = Callback(Head(conns[c].queue), Fail(Engine, ClosedErr))
  /\ conns' = [conns EXCEPT ![c].queue = Tail(@)]
  /\ UNCHANGED <<pc, db, timers, dbUp, engineVars>>

\* The clients.  A request whose statement will wait in the driver is sent
\* only while fewer than n statements of requests wait there, and an add-user
\* only while the identifiers of the waiting ones and its own stay within
\* MaxId; a request that is answered at once (GET /health, a body that fails
\* the check, any request while the handle refers to a closed connection) is
\* sent at any time.
Sends(n) ==
  /\ pc = "running"
  /\ conns[db].state # "closed" => Inflight(conns) < n

SendsAdd(n) == Sends(n) /\ nextId + Inflight(conns) <= MaxId

Requests(n) ==
  \/ Health
  \/ Sends(n) /\ CreateTable
  \/ Sends(n) /\ Users
  \/ \E b \in Bodies :
       /\ IF Falsy(b[1]) \/ Falsy(b[2]) THEN TRUE ELSE SendsAdd(n)
       /\ AddUser(b[1], b[2])
  \/ \E id \in PathIds : \E b \in Bodies :
       /\ IF Falsy(b[1]) \/ Falsy(b[2]) THEN TRUE ELSE Sends(n)
       /\ UpdateUser(id, b[1], b[2])
  \/ \E id \in PathIds : Sends(n) /\ DeleteUser(id)

Request == Requests(MaxInflight)

Driver ==
  \/ \E c \in Conns : ExecHead(c)
  \/ \E c \in Conns : FailHead(c)

Lifecycle ==
  \/ Start
  \/ TimerFire
  \/ \E c \in Conns : ConnectOK(c)
  \/ \E c \in Conns : ConnectRefused(c)
  \/ \E c \in Conns : HandshakeLost(c)
  \/ \E c \in Conns : ConnLost(c)
  \/ EngineDown
  \/ EngineUp

Next == Request \/ Driver \/ Lifecycle

Spec == Init /\ [][Next]_vars

\* The runs with concurrent requests: the connection is made at the first
\* attempt, up to MaxConcurrent statements of requests wait in the driver at
\* once, and an established connection is lost at most MaxLosses times.
ConcLost(c) == Len(conns) <= MaxLosses /\ ConnLost(c)

ConcNext ==
  \/ Start
  \/ \E c \in Conns : ConnectOK(c)
  \/ \E c \in Conns : ConcLost(c)
  \/ Requests(MaxConcurrent)
  \/ \E c \in Conns : ExecHead(c)
  \/ \E c \in Conns : FailHead(c)

ConcInit == Init /\ dbUp

ConcSpec == ConcInit /\ [][ConcNext]_vars

\* What Node's event loop and the driver guarantee: the top-level script
\* runs, a pending timer fires, a handshake with an engine that is up
\* completes, and a queued statement is answered.  Nothing is assumed of the
\* clients or of the engine and the network.
FairSpec ==
  /\ Spec
  /\ WF_vars(Start)
  /\ WF_vars(TimerFire)
  /\ WF_vars(\E c \in Conns : ConnectOK(c))
  /\ WF_vars(Driver)


\* ---------------------------------------------------- shared notions
Ids(rs) == {rs[i].id : i \in 1..Len(rs)}

\* What GET /users would answer in the state reached by this step.
UsersAfter ==
  SqlSelectAll([exists |-> tableExists', rows |-> rows', nextId |-> nextId']).results

\* The engine answers, in this step, the statement st of route op.
Executes(c, op) ==
  /\ conns[c].queue # <<>>
  /\ Head(conns[c].queue).op = op
  /\ ExecHead(c)

\* The driver fails, in this step, a statement of route op left on a closed
\* connection.
Fails(c, op) ==
  /\ conns[c].queue # <<>>
  /\ Head(conns[c].queue).op = op
  /\ FailHead(c)

\* ------------------------------------------------------------ claims
\* C1: a successful POST /add-user with non-empty name and email adds
\* exactly one record (the table afterwards is the table before with the new
\* record appended), returns a userId that no record ever had, and GET /users
\* afterwards lists that record with the submitted name and email; a body with
\* non-empty name and email is never answered 400.
C1_AddUserFresh ==
  /\ [][\A c \in Conns :
          (last'.op = "add-user" /\ last'.status = 200 /\ Executes(c, "add-user"))
          => LET st == Head(conns[c].queue)
                 rec == [id |-> last'.userId, name |-> st.name, email |-> st.email]
             IN /\ ~Falsy(st.name) /\ ~Falsy(st.email)
                /\ last'.userId \notin assigned
                /\ last'.userId \notin Ids(rows)
                /\ rows' = Append(rows, rec)
                /\ \E i \in 1..Len(UsersAfter) : UsersAfter[i] = rec
                /\ Len(UsersAfter) = Len(rows) + 1]_vars
  /\ [][last'.status = 400 => \A b \in ValidBodies : ~AddUser(b[1], b[2])]_vars

\* C1 witness: an add-user answered 200 with userId 2 after the record with
\* id 1 was deleted.
C1_Witness ==
  /\ last.op = "add-user" /\ last.status = 200 /\ last.userId = 2
  /\ Ids(rows) = {2}
  /\ assigned = {1, 2}

\* C2: POST /add-user with name or email (or both) missing or empty is
\* answered 400 in every state of the connection, changes neither the table
\* nor any connection's statement queue, and no add-user statement with a
\* missing field is ever waiting in the driver.
C2_AddUserMissingField ==
  /\ [](pc = "running" =>
          \A b \in Bodies : (Falsy(b[1]) \/ Falsy(b[2])) => ENABLED AddUser(b[1], b[2]))
  /\ [][\A b \in Bodies :
          ((Falsy(b[1]) \/ Falsy(b[2])) /\ AddUser(b[1], b[2]))
          => /\ last'.op = "add-user" /\ last'.status = 400
             /\ UNCHANGED <<connVars, engineVars>>]_vars
  /\ [](\A c \in Conns : \A k \in 1..Len(conns[c].queue) :
          conns[c].queue[k].op = "add-user"
          => ~Falsy(conns[c].queue[k].name) /\ ~Falsy(conns[c].queue[k].email))

\* C2 witness: a 400 from add-user while the handle refers to a closed
\* connection and a retry is pending.
C2_Witness ==
  /\ last.op = "add-user" /\ last.status = 400
  /\ conns[db].state = "closed" /\ timers # <<>>

\* An update-user request for path segment id is answered in this step: at
\* once on a closed connection, by the engine, or by the driver's failure.
UpdateAnswered(id) ==
  \/ \E b \in ValidBodies : UpdateUser(id, b[1], b[2]) /\ last'.op = "update-user"
  \/ \E c \in Conns :
       /\ Executes(c, "update-user") \/ Fails(c, "update-user")
       /\ Head(conns[c].queue).id = id

\* C3 as stated: PUT /update-user/:id with a valid body and an id that
\* matches no record of the table is always answered 404 and leaves the
\* table unchanged.
C3_Original ==
  [][\A id \in PathIds :
       (tableExists /\ Matches(rows, id) = {} /\ UpdateAnswered(id))
       => last'.status = 404 /\ UNCHANGED engineVars]_vars

\* C3 amended: PUT /update-user/:id with a valid body and an id that matches
\* no record is answered 404 when the engine executes its statement on the
\* existing table, and 500 when the connection is closed or the table is
\* absent; in every case the table is unchanged.
C3_UpdateAbsent ==
  [][\A id \in PathIds :
       (Matches(rows, id) = {} /\ UpdateAnswered(id))
       => /\ UNCHANGED engineVars
          /\ last'.status = IF tableExists /\ \E c \in Conns : ExecHead(c)
                            THEN 404 ELSE 500]_vars

\* C3 witness: a 404 for id 2 while the table holds only the record 1.
C3_Witness ==
  /\ last.op = "update-user" /\ last.status = 404 /\ last.id = "2"
  /\ Ids(rows) = {1}

\* C4: PUT /update-user/:id on an existing id with non-empty name and email,
\* executed by the engine, is answered 200; afterwards GET /users shows the
\* new name and email for that id, and every other record, the set of ids and
\* the order of the records are unchanged.
C4_UpdateExisting ==
  [][\A c \in Conns :
       (Executes(c, "update-user") /\ Matches(rows, Head(conns[c].queue).id) # {})
       => LET st == Head(conns[c].queue) IN
          /\ last'.status = 200
          /\ ~Falsy(st.name) /\ ~Falsy(st.email)
          /\ Len(rows') = Len(rows)
          /\ \A i \in 1..Len(rows) :
               rows'[i] = IF rows[i].id = SqlNumber(st.id)
                          THEN [id |-> rows[i].id, name |-> st.name, email |-> st.email]
                          ELSE rows[i]
          /\ UsersAfter = rows'
          /\ UNCHANGED <<tableExists, nextId, assigned>>]_vars

\* C4 witness: a 200 for id 1 with two records in the table that differ in
\* name and email.
C4_Witness ==
  /\ last.op = "update-user" /\ last.status = 200 /\ last.id = "1"
  /\ Len(rows) = 2
  /\ rows[1].name # rows[2].name /\ rows[1].email # rows[2].email


\* A delete-user request for path segment id is answered in this step.
DeleteAnswered(id) ==
  \/ DeleteUser(id) /\ last'.op = "delete-user"
  \/ \E c \in Conns :
       /\ Executes(c, "delete-user") \/ Fails(c, "delete-user")
       /\ Head(conns[c].queue).id = id

\* The table without the records that id matches.
Without(rs, id) == SelectSeq(rs, LAMBDA r : r.id # SqlNumber(id))

\* C5 as stated: DELETE /delete-user/:id on an existing id is answered 200
\* and removes exactly that record; on an id that matches no record (as after
\* a first delete) it is answered 404 and changes nothing.
C5_Original ==
  [][\A id \in PathIds :
       (tableExists /\ DeleteAnswered(id))
       => IF Matches(rows, id) # {}
          THEN last'.status = 200 /\ rows' = Without(rows, id)
          ELSE last'.status = 404 /\ UNCHANGED engineVars]_vars

\* C5 amended: a DELETE /delete-user/:id that the engine executes is answered
\* 200 on an existing id and removes exactly that record, all others staying
\* as they are, and is answered 404 on an id that matches no record, changing
\* nothing; an id whose record was removed never matches a record again, so
\* a second DELETE that the engine executes is answered 404.  A DELETE
\* answered while the connection is closed is answered 500 and changes nothing.
C5_DeleteOnce ==
  /\ [][\A id \in PathIds :
          DeleteAnswered(id)
          => IF tableExists /\ \E c \in Conns : ExecHead(c)
             THEN IF Matches(rows, id) # {}
                  THEN /\ last'.status = 200
                       /\ rows' = Without(rows, id)
                       /\ Ids(rows') = Ids(rows) \ {SqlNumber(id)}
                       /\ UNCHANGED <<tableExists, nextId, assigned>>
                  ELSE last'.status = 404 /\ UNCHANGED engineVars
             ELSE last'.status = 500 /\ UNCHANGED engineVars]_vars
  /\ [][\A i \in assigned : i \notin Ids(rows) => i \notin Ids(rows')]_vars

\* C5 witness: a 404 for id 1, whose record was removed earlier, while the
\* record 2 is still in the table.
C5_Witness ==
  /\ last.op = "delete-user" /\ last.status = 404 /\ last.id = "1"
  /\ assigned = {1, 2}
  /\ Ids(rows) = {2}

\* C6: GET /health is answered 200 with its status body in every state of the
\* connection lifecycle once the listener runs, and the step changes neither
\* the handle, nor any connection or its statement queue, nor the timers, nor
\* the table.
C6_HealthAlways ==
  /\ [](pc = "running" => ENABLED Health)
  /\ [][last'.op = "health"
        => /\ last'.status = 200
           /\ last'.text = "Backend is running!"
           /\ UNCHANGED <<connVars, dbUp, engineVars>>]_vars

\* C6 witness: health answered during a retry wait, the engine being down and
\* the handle referring to a closed connection.
C6_Witness ==
  /\ last.op = "health" /\ last.status = 200
  /\ conns[db].state = "closed"
  /\ timers # <<>>
  /\ ~dbUp


\* The handle refers to an established connection.
Connected == pc = "running" /\ conns[db].state = "connected"

LossSeen == \E c \in Conns : conns[c].established /\ conns[c].state = "closed"

\* C8: when an established connection is lost and its 'error' listener sees
\* PROTOCOL_CONNECTION_LOST, the listener starts the cycle afresh in the same
\* step: one new connection object, in the state a new object has at startup,
\* is created and stored in db, and no timer is involved; under FairSpec, once
\* a loss has happened and the engine is up for good, the handle eventually
\* refers to an established connection and the table exists, and a statement
\* the engine runs on the existing table is not answered 500.
C8_ReconnectAfterLoss ==
  /\ [][\A c \in Conns :
          (conns[c].state = "connected" /\ conns'[c].state = "closed")
          => /\ conns' = Append(Close(conns, c, ErrLost), NewConn)
             /\ db' = Len(conns')
             /\ timers' = timers]_vars
  /\ [][(last'.op \notin {"none", "health"} /\ tableExists /\ \E c \in Conns : ExecHead(c))
        => last'.status # 500]_vars
  /\ [](([]dbUp /\ LossSeen) => <>(Connected /\ tableExists))

\* C8 witness: GET /users answered 200 through a connection made after an
\* established connection was lost.
C8_Witness ==
  /\ LossSeen
  /\ Connected
  /\ last.op = "users" /\ last.status = 200

\* C9: in every state at most one connect/retry cycle is active (a
\* connection object in its handshake, or a pending retry timer), and every
\* connection object that is not closed is the one db refers to.
C9_OneHandle ==
  pc = "running" =>
    /\ Cardinality({c \in Conns : conns[c].state = "connecting"}) + Len(timers) <= 1
    /\ \A c \in Conns : conns[c].state # "closed" => c = db

StorageOps == {"create-table", "add-user", "users", "update-user", "delete-user"}

\* C10 as stated: every request to a storage-backed endpoint that passes
\* validation while the connection is not ready (the handle refers to an
\* object that is connecting or closed) is answered 500 and does not modify
\* the table.
C10_Original ==
  [][last'.op \in StorageOps /\ last'.status # 400
     => \/ \E c \in Conns : (ExecHead(c) \/ FailHead(c)) /\ Head(conns[c].queue).at = "connected"
        \/ last'.status = 500 /\ UNCHANGED engineVars]_vars

\* C10 amended: every request to a storage-backed endpoint that passes
\* validation while the handle refers to a closed connection (a retry wait)
\* is answered 500 with the driver's error at once, and so is every request
\* whose connection closes before its statement runs; neither modifies the
\* table or stops the process.  A request made while a connection attempt is
\* in progress is held by the driver until the attempt ends: it is answered 500
\* if the attempt fails and runs as usual if it succeeds.  The table changes
\* only when the engine runs a statement on an established connection.
C10_NotReady500 ==
  /\ [][(last'.op \in StorageOps /\ last'.status # 400 /\ ~\E c \in Conns : ExecHead(c))
        => /\ last'.status = 500 /\ last'.text = ClosedErr
           /\ UNCHANGED engineVars
           /\ pc' = "running"
           /\ \/ conns[db].state = "closed" /\ UNCHANGED conns
              \/ \E c \in Conns : conns[c].state = "closed" /\ FailHead(c)]_vars
  /\ [](pc = "running" /\ conns[db].state = "closed"
        => ENABLED (CreateTable /\ last'.status = 500))
  /\ [][\A c \in Conns :
          (conns[c].state = "connecting" /\ conns'[c].state = "connecting")
          => \E t \in {<<>>} \cup {<<st>> : st \in {conns'[c].queue[k] : k \in 1..Len(conns'[c].queue)}} :
               conns'[c].queue = conns[c].queue \o t]_vars
  /\ [][engineVars' # engineVars
        => \E c \in Conns : conns[c].state = "connected" /\ dbUp /\ ExecHead(c)]_vars

\* C10 witness: POST /add-user answered 500 with the driver's error during a
\* retry wait.
C10_Witness ==
  /\ last.op = "add-user" /\ last.status = 500 /\ last.text = ClosedErr
  /\ conns[db].state = "closed"
  /\ timers # <<>>

\* The number of create-if-absent statements of createTableIfNotExists
\* waiting on connection object c.
AutoCreates(cs, c) ==
  Cardinality({k \in 1..Len(cs[c].queue) : cs[c].queue[k].op = "auto-create"})

\* C11: every successful handshake (the first and every later one) makes the
\* connect callback issue the create-if-absent statement exactly once, on the
\* connection the handle refers to (nothing is issued when that one is
\* closed), and no other step issues it; a create-if-absent statement, from
\* the connect callback or from POST /create-table, that the engine runs on
\* an existing table leaves the records, the next identifier and the
\* identifiers handed out unchanged, and POST /create-table is answered 200.
C11_CreateIfAbsentOnce ==
  /\ [][\A c \in Conns :
          (conns[c].state = "connecting" /\ conns'[c].state = "connected")
          => LET cs == Establish(conns, c) IN
             /\ conns' = IF cs[db].state = "closed" THEN cs
                         ELSE [cs EXCEPT ![db].queue =
                                 Append(@, Stmt("auto-create", "", "", "", cs[db].state))]
             /\ UNCHANGED <<db, timers, engineVars>>]_vars
  /\ [][\A c \in Conns :
          AutoCreates(conns', c) > AutoCreates(conns, c)
          => /\ AutoCreates(conns', c) = AutoCreates(conns, c) + 1
             /\ c = db
             /\ \E k \in Conns : conns[k].state = "connecting" /\ conns'[k].state = "connected"]_vars
  /\ [][\A c \in Conns :
          (tableExists /\ (Executes(c, "auto-create") \/ Executes(c, "create-table")))
          => /\ UNCHANGED engineVars
             /\ Head(conns[c].queue).op = "create-table" => last'.status = 200
             /\ Head(conns[c].queue).op = "auto-create" => last' = NoResp]_vars

\* C11 witness: POST /create-table answered 200 on a table that holds a
\* record, through a connection made after a loss, whose own create-if-absent
\* statement has been run.
C11_Witness ==
  /\ last.op = "create-table" /\ last.status = 200
  /\ rows # <<>>
  /\ LossSeen /\ Connected
  /\ conns[db].queue = <<>>

\* The ids of the records of a table, in the table's order.
IdSeq(rs) == [i \in 1..Len(rs) |-> rs[i].id]

\* C12: in every reachable state every record of the table has a name and an
\* email that are present (and non-empty), the ids of the records are
\* pairwise distinct, every id in the table was handed out by the engine and
\* lies below the AUTO_INCREMENT counter; no step changes the id of a record:
\* the ids after a step are the ids before it with some removed, or with one
\* id appended that was never handed out before; and no id that was handed
\* out is handed out again, whether or not its record was deleted since.
C12_RecordInvariant ==
  /\ [](/\ \A i \in 1..Len(rows) : ~Falsy(rows[i].name) /\ ~Falsy(rows[i].email)
        /\ \A i, j \in 1..Len(rows) : i # j => rows[i].id # rows[j].id
        /\ Ids(rows) \subseteq assigned
        /\ \A i \in assigned : i < nextId)
  /\ [][\/ \E S \in SUBSET Ids(rows) :
             IdSeq(rows') = SelectSeq(IdSeq(rows), LAMBDA x : x \notin S)
        \/ \E n \in Ids(rows') \ (assigned \cup Ids(rows)) :
             IdSeq(rows') = Append(IdSeq(rows), n)]_vars
  /\ [][/\ assigned \subseteq assigned'
        /\ \A n \in Ids(rows') \ Ids(rows) : n \notin assigned /\ n \in assigned']_vars

\* C12 witness: an update answered 200 on the record 2, the only record left
\* after the record 1 was deleted.
C12_Witness ==
  /\ last.op = "update-user" /\ last.status = 200 /\ last.id = "2"
  /\ Ids(rows) = {2}
  /\ assigned = {1, 2}

\* The engine's state after a statement with outcome o.
After(o) == [exists |-> o.exists, rows |-> o.rows, nextId |-> o.nextId]

\* The README's curl scenario on an empty, freshly created table: add b1, add
\* b2, GET /users, update id 1 to b3, delete id 2, GET /users.  It gives the
\* six responses, each statement being run by the engine when it is issued.
Scenario(b1, b2, b3) ==
  LET s1 == Stmt("add-user", "", b1[1], b1[2], "connected")
      s2 == Stmt("add-user", "", b2[1], b2[2], "connected")
      s3 == Stmt("users", "", "", "", "connected")
      s4 == Stmt("update-user", "1", b3[1], b3[2], "connected")
      s5 == Stmt("delete-user", "2", "", "", "connected")
      o1 == Run([exists |-> TRUE, rows |-> <<>>, nextId |-> 1], s1)
      o2 == Run(After(o1), s2)
      o3 == Run(After(o2), s3)
      o4 == Run(After(o3), s4)
      o5 == Run(After(o4), s5)
      o6 == Run(After(o5), s3)
  IN <<Callback(s1, o1), Callback(s2, o2), Callback(s3, o3),
       Callback(s4, o4), Callback(s5, o5), Callback(s3, o6)>>

\* C13: the table starts empty with its counter at 1; every add-user answered
\* 200 returns as userId the number of add-users answered 200 so far (1, 2,
\* ...) and appends its record at the end of the table; the records of the
\* table are always in increasing order of id, which is the order they were
\* inserted in; a GET /users that the engine runs on the existing table is
\* answered 200 with the records in that order; and in the two-user scenario
\* (add, add, update id 1, delete id 2) the two adds return 1 and 2, the first
\* GET lists the two records in that order and the last GET lists exactly one
\* record: id 1 with the updated name and email.
C13_InsertionOrder ==
  /\ [](/\ assigned = 1..(nextId - 1)
        /\ \A i, j \in 1..Len(rows) : i < j => rows[i].id < rows[j].id)
  /\ [][(last'.op = "add-user" /\ last'.status = 200)
        => /\ last'.userId = Cardinality(assigned) + 1
           /\ Len(rows') = Len(rows) + 1
           /\ rows'[Len(rows')].id = last'.userId
           /\ \A i \in 1..Len(rows) : rows'[i] = rows[i]]_vars
  /\ [][\A c \in Conns :
          (tableExists /\ Executes(c, "users"))
          => last'.status = 200 /\ last'.body = rows /\ UNCHANGED engineVars]_vars
  /\ [](\A b1, b2, b3 \in ValidBodies :
          LET r == Scenario(b1, b2, b3) IN
          /\ r[1].status = 200 /\ r[1].userId = 1
          /\ r[2].status = 200 /\ r[2].userId = 2
          /\ r[3].status = 200
          /\ r[3].body = <<[id |-> 1, name |-> b1[1], email |-> b1[2]],
                           [id |-> 2, name |-> b2[1], email |-> b2[2]]>>
          /\ r[4].status = 200 /\ r[5].status = 200
          /\ r[6].status = 200
          /\ r[6].body = <<[id |-> 1, name |-> b3[1], email |-> b3[2]]>>)

\* C13 witness: GET /users answered with exactly the record 1, carrying
\* the second body, after the ids 1 and 2 were handed out.
C13_Witness ==
  /\ last.op = "users" /\ last.status = 200
  /\ last.body = <<[id |-> 1, name |-> "b", email |-> "y"]>>
  /\ assigned = {1, 2}

\* The states of the connection objects, without their statement queues.
ConnStates(cs) == [c \in 1..Len(cs) |-> cs[c].state]

\* No connection has been established so far.
NeverConnected == \A c \in Conns : ~conns[c].established

\* C14: the listener runs from the step that starts the first connection
\* attempt, before any connection is established; from then on, whatever the
\* connection's state and whether or not a retry timer is pending, GET /health
\* and the 400 answers can always be given; while the handle refers to a closed
\* connection (a retry wait) every storage route can run and is answered 500
\* in the same step; while it refers to a connection in its handshake every
\* storage route can run (its statement is handed to the driver); and a
\* handler's step never touches the handle, the timers or the state of a
\* connection object.
C14_ListenerIndependent ==
  /\ [](pc = "boot" => conns = <<>> /\ timers = <<>>)
  /\ [][(pc = "boot" /\ pc' = "running")
        => conns'[db'].state = "connecting" /\ ~conns'[db'].established]_vars
  /\ [](pc = "running"
        => /\ ENABLED Health
           /\ ENABLED (AddUser(Missing, "x") /\ last'.status = 400)
           /\ ENABLED (UpdateUser("1", "a", Missing) /\ last'.status = 400))
  /\ [](pc = "running" /\ conns[db].state = "closed"
        => /\ ENABLED (Users /\ last'.op = "users" /\ last'.status = 500)
           /\ \A id \in PathIds :
                /\ ENABLED (DeleteUser(id) /\ last'.op = "delete-user" /\ last'.status = 500)
                /\ ENABLED (UpdateUser(id, "a", "x") /\ last'.status = 500))
  /\ [](pc = "running" /\ conns[db].state = "connecting"
        => /\ ENABLED CreateTable
           /\ ENABLED Users
           /\ \A id \in PathIds :
                /\ ENABLED DeleteUser(id)
                /\ ENABLED UpdateUser(id, "a", "x"))
  /\ [][(<<pc, db, timers, dbUp>>' # <<pc, db, timers, dbUp>>
         \/ ConnStates(conns') # ConnStates(conns))
        => ~Request]_vars

\* C14 witness: GET /users answered (500) while no connection has ever been
\* established, the engine is down and a retry timer is pending.
C14_Witness ==
  /\ last.op = "users" /\ last.status = 500
  /\ NeverConnected
  /\ conns[db].state = "closed" /\ timers # <<>>
  /\ ~dbUp

\* C15: PUT /update-user/:id is answered 404 only by the engine running its
\* statement on the existing table with no record matching the id, and then
\* always; in particular an update that the engine runs on an existing record
\* with the name and email the record already has is answered 200 and leaves
\* the table as it is.
C15_NotFoundOnlyWhenAbsent ==
  /\ [][(last'.op = "update-user" /\ last'.status = 404)
        => \E c \in Conns :
             /\ Executes(c, "update-user")
             /\ tableExists
             /\ Matches(rows, Head(conns[c].queue).id) = {}]_vars
  /\ [][\A c \in Conns :
          Executes(c, "update-user")
          => LET st == Head(conns[c].queue) IN
             /\ last'.status = 404 <=> (tableExists /\ Matches(rows, st.id) = {})
             /\ (\E i \in Matches(rows, st.id) :
                   rows[i].name = st.name /\ rows[i].email = st.email)
                => last'.status = 200 /\ UNCHANGED engineVars]_vars

\* C15 witness: an update of the record 1 answered 200, the record holding
\* the first body, which is also the body it was given when it was added as
\* the only record.
C15_Witness ==
  /\ last.op = "update-user" /\ last.status = 200 /\ last.id = "1"
  /\ rows = <<[id |-> 1, name |-> "a", email |-> "x"]>>
  /\ assigned = {1}

\* The bodies of Bodies with name or email absent or empty.
InvalidBodies == {b \in Bodies : Falsy(b[1]) \/ Falsy(b[2])}

\* C16: PUT /update-user/:id with name or email (or both) missing or empty
\* can be made in every running state and is answered 400 in the same step,
\* for every path id, matching a record or not; the step changes neither the
\* table nor any connection's statement queue, and no update-user statement
\* with a missing field is ever waiting in the driver, so such a request is
\* never answered 404.
C16_UpdateMissingField ==
  /\ [](pc = "running" =>
          \A id \in PathIds : \A b \in InvalidBodies :
            /\ ENABLED UpdateUser(id, b[1], b[2])
            /\ ~ENABLED (/\ UpdateUser(id, b[1], b[2])
                         /\ ~(/\ last' = Resp("update-user", id, 400, 0, <<>>,
                                               "Name and email are required")
                              /\ UNCHANGED <<connVars, engineVars>>)))
  /\ [][(last'.op = "update-user" /\ last'.status = 400)
        => UNCHANGED <<connVars, engineVars>>]_vars
  /\ [](\A c \in Conns : \A k \in 1..Len(conns[c].queue) :
          conns[c].queue[k].op = "update-user"
          => ~Falsy(conns[c].queue[k].name) /\ ~Falsy(conns[c].queue[k].email))

\* C16 witness: a 400 for the path id 1 while the record 1 is in the table
\* and the handle refers to an established connection.
C16_Witness ==
  /\ last.op = "update-user" /\ last.status = 400 /\ last.id = "1"
  /\ 1 \in Ids(rows)
  /\ Connected

\* The statements of requests (not of createTableIfNotExists) in a queue.
RequestStmts(q) == SelectSeq(q, LAMBDA st : st.op # "auto-create")

\* The step is the handler of route op running for a request with path id
\* id and body <<name, email>>.
Handles(op, id, name, email) ==
  CASE op = "health" -> Health
    [] op = "create-table" -> CreateTable
    [] op = "users" -> Users
    [] op = "add-user" -> AddUser(name, email)
    [] op = "update-user" -> UpdateUser(id, name, email)
    [] op = "delete-user" -> DeleteUser(id)
    [] OTHER -> FALSE

\* C17: a step that sends a response sends one response and is either a
\* handler answering at once, no statement being issued and nothing else
\* changing, or the callback of exactly one statement, the oldest of its
\* connection, which leaves the driver with it; a handler's step that does
\* not answer at once issues exactly one statement, at the end of the queue
\* of the connection db refers to; a statement of a request leaves the driver
\* only with its response, so a failed statement is not issued again; and
\* timers and connection objects are made, and connection states changed,
\* only by the connect/reconnect cycle, whose steps answer no request and
\* neither issue nor drop a request's statement.
C17_OneStatementOneResponse ==
  /\ [][last' # NoResp
        => /\ UNCHANGED <<pc, db, timers, dbUp>>
           /\ Len(conns') = Len(conns)
           /\ \/ /\ conns' = conns /\ UNCHANGED engineVars
                 /\ \E b \in Bodies : Handles(last'.op, last'.id, b[1], b[2])
              \/ \E c \in Conns :
                   /\ conns[c].queue # <<>>
                   /\ Head(conns[c].queue).op = last'.op
                   /\ Head(conns[c].queue).id = last'.id
                   /\ last'.status \in {200, 404, 500}
                   /\ conns' = [conns EXCEPT ![c].queue = Tail(@)]]_vars
  /\ [][(last' = NoResp /\ conns' # conns /\ Len(conns') = Len(conns)
         /\ ConnStates(conns') = ConnStates(conns))
        => \/ \E c \in Conns :
                /\ conns[c].queue # <<>>
                /\ Head(conns[c].queue).op = "auto-create"
                /\ conns' = [conns EXCEPT ![c].queue = Tail(@)]
           \/ /\ conns'[db].queue # <<>>
              /\ conns' = Enqueue(conns, db, conns'[db].queue[Len(conns'[db].queue)])
              /\ conns'[db].queue[Len(conns'[db].queue)].op \in StorageOps
              /\ UNCHANGED engineVars
              /\ LET st == conns'[db].queue[Len(conns'[db].queue)]
                 IN Handles(st.op, st.id, st.name, st.email)]_vars
  /\ [][(timers' # timers \/ db' # db \/ Len(conns') # Len(conns)
         \/ ConnStates(conns') # ConnStates(conns))
        => /\ last' = NoResp
           /\ \A c \in Conns :
                RequestStmts(conns'[c].queue) = RequestStmts(conns[c].queue)
           /\ \A c \in (1..Len(conns')) \ Conns : conns'[c].queue = <<>>
           /\ Lifecycle]_vars

\* C17 witness: GET /users answered 500 by the failure of its statement on a
\* lost connection; the next attempt is in progress and no statement of a
\* request is in the driver.
C17_Witness ==
  /\ last.op = "users" /\ last.status = 500 /\ last.text = ClosedErr
  /\ LossSeen
  /\ conns[db].state = "connecting"
  /\ Inflight(conns) = 0

\* The engine's state after this step.
EngineAfter == [exists |-> tableExists', rows |-> rows', nextId |-> nextId']

\* In this step the engine runs a statement of route op on connection c while
\* another statement of route op, issued before this step, waits right behind
\* it; both were given to db.query while the connection was established.
FirstOfTwo(c, op) ==
  /\ Len(conns[c].queue) >= 2
  /\ conns[c].queue[2].op = op
  /\ conns[c].queue[1].at = "connected"
  /\ conns[c].queue[2].at = "connected"
  /\ Executes(c, op)

\* C18: when two add-user requests with valid bodies are waiting together on
\* an established connection, in either order of arrival, the engine runs the
\* one that arrived first: it is answered 200 and its record is appended; the
\* other is then the oldest statement of the connection and, run next, is
\* answered 200 with a different userId, the table then being the table before
\* the two with the two records appended in order of arrival.  Every add-user
\* given to an established connection that the engine runs is answered 200
\* with a userId never handed out before, and in these runs only the
\* connection db refers to can be open, so no other statement runs in between.
C18_ConcurrentAdds ==
  /\ [][\A c \in Conns :
          FirstOfTwo(c, "add-user")
          => LET s1 == conns[c].queue[1]
                 s2 == conns[c].queue[2]
                 o2 == Run(EngineAfter, s2)
                 a2 == Callback(s2, o2)
                 r1 == [id |-> last'.userId, name |-> s1.name, email |-> s1.email]
                 r2 == [id |-> a2.userId, name |-> s2.name, email |-> s2.email]
             IN /\ last'.status = 200
                /\ rows' = Append(rows, r1)
                /\ Head(conns'[c].queue) = s2
                /\ a2.status = 200
                /\ a2.userId # last'.userId
                /\ a2.userId \notin assigned
                /\ o2.rows = rows \o <<r1, r2>>]_vars
  /\ [][\A c \in Conns :
          (Executes(c, "add-user") /\ Head(conns[c].queue).at = "connected")
          => LET st == Head(conns[c].queue) IN
             /\ last'.status = 200
             /\ last'.userId \notin assigned
             /\ rows' = Append(rows, [id |-> last'.userId, name |-> st.name,
                                      email |-> st.email])]_vars
  /\ [](\A c \in Conns : conns[c].state # "closed" => c = db)

\* C18 witness: the first of two add-users that waited together has been
\* answered 200 with userId 1; the second is the oldest statement of the
\* established connection.
C18_Witness ==
  /\ last.op = "add-user" /\ last.status = 200 /\ last.userId = 1
  /\ Connected
  /\ conns[db].queue # <<>>
  /\ Head(conns[db].queue).op = "add-user"
  /\ Head(conns[db].queue).at = "connected"

\* C19: when two delete-user requests for the same id are waiting together on
\* an established connection and the id matches a record, the engine runs the
\* one that arrived first: it is answered 200 and removes exactly that record;
\* the other is then the oldest statement of the connection and, run next, is
\* answered 404 and changes nothing.  Every delete-user that the engine runs on
\* the existing table is answered 200 if the id matches a record and 404 if it
\* does not, and no step puts a removed id back into the table.
C19_ConcurrentDeletes ==
  /\ [][\A c \in Conns :
          (/\ FirstOfTwo(c, "delete-user")
           /\ conns[c].queue[2].id = conns[c].queue[1].id
           /\ Matches(rows, conns[c].queue[1].id) # {})
          => LET s1 == conns[c].queue[1]
                 s2 == conns[c].queue[2]
                 o2 == Run(EngineAfter, s2)
             IN /\ last'.status = 200
                /\ rows' = Without(rows, s1.id)
                /\ Len(rows') = Len(rows) - 1
                /\ UNCHANGED <<tableExists, nextId, assigned>>
                /\ Head(conns'[c].queue) = s2
                /\ Callback(s2, o2).status = 404
                /\ After(o2) = EngineAfter]_vars
  /\ [][\A c \in Conns :
          (tableExists /\ Executes(c, "delete-user"))
          => last'.status = IF Matches(rows, Head(conns[c].queue).id) # {}
                            THEN 200 ELSE 404]_vars
  /\ [][Ids(rows') \cap (assigned \ Ids(rows)) = {}]_vars
  /\ [](\A c \in Conns : conns[c].state # "closed" => c = db)

\* C19 witness: the first of two deletes of the record 1 that waited together
\* has been answered 200; the second is the oldest statement of the
\* established connection.
C19_Witness ==
  /\ last.op = "delete-user" /\ last.status = 200 /\ last.id = "1"
  /\ Connected
  /\ conns[db].queue # <<>>
  /\ Head(conns[db].queue).op = "delete-user"
  /\ Head(conns[db].queue).id = "1"

\* C20: before the listener runs db is undefined and no handler can run; from
\* the step that starts the listener on, in every state, db refers to one of
\* the connection objects created so far (in whatever state), so every handler
\* that calls db.query calls it on an object; db is only ever re-assigned, to
\* the connection object created in the same step, and objects are never
\* discarded; and a statement is only ever given to the object db refers to.
C20_HandleAssigned ==
  /\ [](pc = "boot" => db = 0 /\ conns = <<>> /\ ~ENABLED Request)
  /\ [](pc = "running" => db \in Conns)
  /\ [][pc = "running" => pc' = "running"]_vars
  /\ [][/\ Len(conns') >= Len(conns)
        /\ db' >= db
        /\ db' # db => /\ db' = Len(conns') /\ Len(conns') = Len(conns) + 1
                       /\ conns'[db'] = NewConn]_vars
  /\ [][\A c \in Conns :
          Len(conns'[c].queue) > Len(conns[c].queue) => c = db /\ c = db']_vars

\* C20 witness: GET /users has called db.query on the first connection
\* object while its handshake was still in progress.
C20_Witness ==
  /\ Len(conns) = 1 /\ db = 1
  /\ conns[1].state = "connecting"
  /\ conns[1].queue # <<>>
  /\ Head(conns[1].queue).op = "users"

====
